---- MODULE Spec2Model ----
(***************************************************************************)
(* Schema migration engine of english-in-use (src-tauri/src/database).     *)
(*                                                                         *)
(* A version string is modelled as the sequence of its dot-separated       *)
(* components ("0.1" is <<0, 1>>).  A parsed semver Version is a triple.    *)
(* An Option value is a sequence with zero (None / Err) or one (Some / Ok) *)
(* element.  The backend is any implementation of the Database trait: a    *)
(* stored version marker, the resources created by the up steps, and       *)
(* calls that either succeed or return an error.                           *)
(***************************************************************************)
EXTENDS Integers, Sequences, FiniteSets, TLC

\* ---------------------------------------------------------------- bounds
MaxPatch == 2      \* patch numbers used in the version strings
MaxCatalog == 3    \* records in a migration catalog
MaxCalls == 2      \* consecutive invocations of one runner call
MaxComp == 1       \* greatest component of a free-form version string
MaxParts == 4      \* components of a free-form version string
MaxNormalize == 2  \* successive applications of normalize_version

\* ------------------------------------------------------- version utility
None == <<>>
Some(x) == <<x>>

ZERO == <<0, 0, 0>>

\* (mutation: the missing components are padded on the left)
normalize_version_left(v) ==
  CASE Len(v) = 1 -> <<0, 0>> \o v
    [] Len(v) = 2 -> <<0>> \o v
    [] OTHER -> v

\* (mutation: one zero is appended whatever is missing)
normalize_version_one(v) ==
  CASE Len(v) = 1 -> v \o <<0>>
    [] Len(v) = 2 -> v \o <<0>>
    [] OTHER -> v

normalize_version(v) ==
  CASE Len(v) = 1 -> v \o <<0, 0>>
    [] Len(v) = 2 -> v \o <<0>>
    [] OTHER -> v

\* semver::Version::parse: exactly three integer components.
Version_parse(s) ==
  IF Len(s) = 3 /\ \A k \in 1..3 : s[k] \in Nat THEN Some(s) ELSE None

\* Ord of semver::Version: lexicographic over (major, minor, patch).
VLt(a, b) ==
  \/ a[1] < b[1]
  \/ a[1] = b[1] /\ a[2] < b[2]
  \/ a[1] = b[1] /\ a[2] = b[2] /\ a[3] < b[3]

VGt(a, b) == VLt(b, a)
VLe(a, b) == ~VLt(b, a)

\* ------------------------------------------------------------ the inputs
\* Version strings of one, two and three components.
VersionStrings ==
  {<<1>>, <<0, 1>>} \cup {<<0, 0, p>> : p \in 1..MaxPatch}

StoredVersions == VersionStrings \cup {ZERO}

TargetStrings == StoredVersions \cup {normalize_version(s) : s \in VersionStrings}

Targets == {None} \cup {Some(t) : t \in TargetStrings}

\* struct Migration { version, up, down }; an empty down text is <<>>.
Migration(v, withDown) ==
  [version |-> v, up |-> <<"up", v>>,
   down |-> IF withDown THEN <<"down", v>> ELSE <<>>]

Records == {Migration(v, d) : v \in VersionStrings, d \in BOOLEAN}

NV(s) == Version_parse(normalize_version(s))[1]

\* "MIGRATIONS must be sorted by version in ascending order."
Ascending(c) ==
  \A k \in 1..(Len(c) - 1) : VLt(NV(c[k].version), NV(c[k + 1].version))

Catalogs ==
  UNION {{c \in [1..n -> Records] : Ascending(c)} : n \in 0..MaxCatalog}

\* ------------------------------------------------------------------ state
VARIABLES
  catalog,      \* migrations: &[Migration]
  version,      \* the stored version marker, as get_version returns it
  tables,       \* versions whose up step's resources are present
  pc,           \* position of the runner call in flight
  kind,         \* "up" or "down"
  target,       \* target_version: Option<&str>
  current,      \* current_db_version
  target_v,     \* target_v
  idx,          \* index of the catalog record being processed
  result,       \* "ok" / "err" once the call has returned
  log,          \* backend calls issued by the call in flight
  start,        \* the marker when the call was issued
  prev,         \* result and execute count of the preceding invocation
  ncalls,       \* invocations so far
  nv_in,        \* argument v of normalize_version
  nv_out,       \* the values returned by successive normalize_version calls
  backend,      \* the concrete Database: "sqlite" or "d1"
  meta,         \* table _app_meta: [present, rows]
  bk_ret,       \* the concrete backend calls made, with what they returned
  slot,         \* DbState.db: Option<Box<dyn Database>>
  flag,         \* the file .db_initialized exists
  configured,   \* config.database is Some
  cmd,          \* the command in flight
  cmd_ret,      \* what the last command returned
  up_latest_ok, \* some migrate_up(None) has returned Ok
  init,         \* the initialize_database call in flight and its last return
  cache,        \* BookCacheState: the book list keys cached
  other         \* the second task: its command, its initialize call, its runner call

runner == <<catalog, version, tables, pc, kind, target, current, target_v,
            idx, result, log, start, prev, ncalls>>

\* What a runner call on the Database trait leaves alone.
others == <<other, nv_in, nv_out, backend, meta, bk_ret, slot, flag, configured,
            cmd, cmd_ret, up_latest_ok, init, cache>>

vars == <<runner, others>>

\* ------------------------------------------------- the runner's traversal
\* (mutation: a record equal to the current version counts as pending)
up_pending_ge(mv, cur) == ~VLt(mv, cur)

up_pending(mv, cur) == VGt(mv, cur)

\* (mutation: the comparison with the target is inverted)
up_beyond_target_inv(mv, tv) == tv # None /\ VLt(mv, tv[1])

up_beyond_target(mv, tv) == tv # None /\ VGt(mv, tv[1])

\* The for loop of migrate_up_with_list from record i up to the next
\* backend call: <<"execute", j>>, <<"ok", 0>> (loop left) or <<"err", 0>>.
RECURSIVE UpScan(_, _, _, _)
UpScan(c, cur, tv, i) ==
  IF i > Len(c) THEN <<"ok", 0>>
  ELSE LET p == Version_parse(normalize_version(c[i].version)) IN
       IF p = None THEN <<"err", 0>>
       ELSE IF up_pending(p[1], cur)
            THEN IF up_beyond_target(p[1], tv) THEN <<"ok", 0>>
                 ELSE <<"execute", i>>
            ELSE UpScan(c, cur, tv, i + 1)

\* "Default to one version down": Ok(version) or Err.
RECURSIVE DefaultTargetFrom(_, _, _, _)
DefaultTargetFrom(c, cur, acc, i) ==
  IF i > Len(c) THEN Some(acc)
  ELSE LET p == Version_parse(normalize_version(c[i].version)) IN
       IF p = None THEN None
       ELSE IF VLt(p[1], cur) /\ VGt(p[1], acc)
            THEN DefaultTargetFrom(c, cur, p[1], i + 1)
            ELSE DefaultTargetFrom(c, cur, acc, i + 1)

\* (mutation: a catalog version equal to the current one is a candidate)
default_down_target_le(c, cur) ==
  LET S == {NV(c[j].version) : j \in {i \in 1..Len(c) : VLe(NV(c[i].version), cur)}}
  IN Some(IF S = {} THEN ZERO ELSE CHOOSE m \in S : \A x \in S : VLe(x, m))

default_down_target(c, cur) == DefaultTargetFrom(c, cur, ZERO, 1)

\* (mutation: the record at the current version is not unwound)
down_selected_lt(mv, cur, tv) == VLt(mv, cur) /\ VGt(mv, tv)

\* (mutation: the record at the target itself is unwound too)
down_selected_ge(mv, cur, tv) == VLe(mv, cur) /\ ~VLt(mv, tv)

down_selected(mv, cur, tv) == VLe(mv, cur) /\ VGt(mv, tv)

\* (mutation: a record with an empty down step is skipped altogether)
RECURSIVE DownScanSkipEmpty(_, _, _, _)
DownScanSkipEmpty(c, cur, tv, i) ==
  IF i < 1 THEN <<"ok", 0>>
  ELSE LET p == Version_parse(normalize_version(c[i].version)) IN
       IF p = None THEN <<"err", 0>>
       ELSE IF down_selected(p[1], cur, tv) /\ c[i].down # <<>>
            THEN <<"execute", i>>
            ELSE DownScanSkipEmpty(c, cur, tv, i - 1)

\* The reverse for loop of migrate_down_with_list from record i down.
RECURSIVE DownScan(_, _, _, _)
DownScan(c, cur, tv, i) ==
  IF i < 1 THEN <<"ok", 0>>
  ELSE LET p == Version_parse(normalize_version(c[i].version)) IN
       IF p = None THEN <<"err", 0>>
       ELSE IF down_selected(p[1], cur, tv)
            THEN IF c[i].down # <<>> THEN <<"execute", i>>
                 ELSE <<"set_version", i>>
            ELSE DownScan(c, cur, tv, i - 1)

\* "Set version to the one BEFORE this migration": Ok(string) or Err.
RECURSIVE PrevFrom(_, _, _, _)
PrevFrom(c, mv, acc, i) ==
  IF i > Len(c) THEN Some(acc)
  ELSE LET p == Version_parse(normalize_version(c[i].version)) IN
       IF p = None THEN None
       ELSE IF VLt(p[1], mv) THEN PrevFrom(c, mv, c[i].version, i + 1)
            ELSE Some(acc)

\* (mutation: the record's own version is taken as the preceding one)
prev_v_le(c, mv) ==
  LET S == {j \in 1..Len(c) : VLe(NV(c[j].version), mv)}
  IN Some(IF S = {} THEN ZERO
          ELSE c[CHOOSE j \in S : \A x \in S : x <= j].version)

prev_v(c, mv) == PrevFrom(c, mv, ZERO, 1)

\* ------------------------------------------------------------ the backend
Call(op, arg, ok) == [op |-> op, arg |-> arg, ok |-> ok]

\* Effect of a successfully executed statement on the store's resources.
Apply(stmt, t) ==
  IF stmt[1] = "up" THEN t \cup {stmt[2]} ELSE t \ {stmt[2]}

\* ---------------------------------------------------------------- Init
NoCmd == [name |-> "none", arg |-> None, at |-> "none", before |-> <<>>]

\* before: the state at the invocation; flag0: the flag as init tested it;
\* ups: the migrate_up runs the call has started.
NoInit ==
  [at |-> "idle", migrated |-> FALSE, ret |-> None, before |-> None,
   flag0 |-> None, ups |-> 0]

\* A task that has nothing in flight.
NoTask ==
  [cmd |-> NoCmd, init |-> NoInit, pc |-> "idle", kind |-> "none",
   target |-> None, current |-> ZERO, target_v |-> None, idx |-> 0,
   result |-> "none", log |-> <<>>, start |-> ZERO,
   prev |-> [result |-> "none", executes |-> 0], ncalls |-> 0,
   yields |-> 0]

\* Nothing normalised yet.
NormIdle == nv_in = <<>> /\ nv_out = <<>>

\* No concrete backend under test.
BackendIdle ==
  /\ backend = "trait" /\ meta = [present |-> FALSE, rows |-> <<>>]
  /\ bk_ret = None

\* No backend attached, no flag file, no command issued.
AppIdle ==
  /\ slot = None /\ flag = FALSE /\ configured = FALSE
  /\ cmd = NoCmd /\ cmd_ret = None
  /\ up_latest_ok = FALSE
  /\ init = NoInit /\ cache = {}
  /\ other = NoTask

OthersIdle == NormIdle /\ BackendIdle /\ AppIdle

\* No runner call issued; c is the catalog and v the stored marker.
RunnerIdle(c, v) ==
  /\ catalog = c /\ version = v /\ tables = {}
  /\ pc = "idle" /\ kind = "none" /\ target = None
  /\ current = ZERO /\ target_v = None /\ idx = 0
  /\ result = "none" /\ log = <<>> /\ start = v
  /\ prev = [result |-> "none", executes |-> 0] /\ ncalls = 0

Init ==
  /\ catalog \in Catalogs
  /\ version \in StoredVersions
  /\ tables = {catalog[k].version : k \in {j \in 1..Len(catalog) :
                 VLe(NV(catalog[j].version), NV(version))}}
  /\ pc = "idle"
  /\ kind = "none"
  /\ target = None
  /\ current = ZERO
  /\ target_v = None
  /\ idx = 0
  /\ result = "none"
  /\ log = <<>>
  /\ start = version
  /\ prev = [result |-> "none", executes |-> 0]
  /\ ncalls = 0
  /\ OthersIdle

\* A call returns: pc = "done" with its result.
Return(r) ==
  /\ pc' = "done"
  /\ result' = r
  /\ idx' = 0

\* Where the call goes after the scan outcome s.
Continue(s) ==
  IF s[1] \in {"ok", "err"} THEN Return(s[1])
  ELSE pc' = s[1] /\ idx' = s[2] /\ result' = result

\* A caller may issue a call when none is in flight; a repeated call
\* repeats the previous one (same direction, same target).
CanCall(k, t) ==
  \/ pc = "idle"
  \/ pc = "done" /\ ncalls < MaxCalls /\ kind = k /\ target = t

\* The call frame of a runner call at its first statement.
Begin(k, t) ==
  /\ pc' = "get_version"
  /\ kind' = k
  /\ target' = t
  /\ current' = ZERO
  /\ target_v' = None
  /\ idx' = 0
  /\ result' = "none"
  /\ log' = <<>>
  /\ start' = version
  /\ prev' = [result |-> result,
               executes |-> Cardinality({j \in 1..Len(log) : log[j].op = "execute"})]
  /\ ncalls' = ncalls + 1
  /\ UNCHANGED <<catalog, version, tables>>

Invoke(k, t) == CanCall(k, t) /\ Begin(k, t) /\ UNCHANGED others

\* ------------------------------------------------------------ migrate_up
migrate_up(t) == Invoke("up", t)

\* db.get_version().await?  then the parsing of current and target.
UpGetVersion ==
  /\ pc = "get_version" /\ kind = "up"
  /\ \E ok \in BOOLEAN :
       /\ log' = Append(log, Call("get_version", <<>>, ok))
       /\ IF ~ok
          THEN Return("err") /\ UNCHANGED <<current, target_v>>
          ELSE LET p == Version_parse(normalize_version(version))
                   cur == IF p = None THEN ZERO ELSE p[1]
                   tv == IF target = None THEN Some(None)
                         ELSE LET q == Version_parse(normalize_version(target[1]))
                              IN IF q = None THEN None ELSE Some(q)
               IN IF tv = None
                  THEN Return("err") /\ UNCHANGED <<current, target_v>>
                  ELSE /\ current' = cur
                       /\ target_v' = tv[1]
                       /\ Continue(UpScan(catalog, cur, tv[1], 1))
  /\ UNCHANGED <<catalog, version, tables, kind, target, start, prev, ncalls>>
  /\ UNCHANGED others

\* (mutation: the error of execute is swallowed and the marker is written)
UpExecuteSwallow ==
  /\ pc = "execute" /\ kind = "up"
  /\ \E ok \in BOOLEAN :
       /\ log' = Append(log, Call("execute", catalog[idx].up, ok))
       /\ tables' = IF ok THEN Apply(catalog[idx].up, tables) ELSE tables
       /\ pc' = "set_version"
       /\ UNCHANGED <<idx, result>>
  /\ UNCHANGED <<catalog, version, kind, target, current, target_v, start,
                 prev, ncalls>>
  /\ UNCHANGED others

\* db.execute(migration.up.to_string()).await?
UpExecute ==
  /\ pc = "execute" /\ kind = "up"
  /\ \E ok \in BOOLEAN :
       /\ log' = Append(log, Call("execute", catalog[idx].up, ok))
       /\ IF ok
          THEN /\ tables' = Apply(catalog[idx].up, tables)
               /\ pc' = "set_version"
               /\ UNCHANGED <<idx, result>>
          ELSE Return("err") /\ UNCHANGED tables
  /\ UNCHANGED <<catalog, version, kind, target, current, target_v, start,
                 prev, ncalls>>
  /\ UNCHANGED others

\* (mutation: the marker is not written)
UpSetVersionNoWrite ==
  /\ pc = "set_version" /\ kind = "up"
  /\ \E ok \in BOOLEAN :
       /\ log' = Append(log, Call("set_version", catalog[idx].version, ok))
       /\ IF ok
          THEN Continue(UpScan(catalog, current, target_v, idx + 1))
          ELSE Return("err")
  /\ UNCHANGED <<catalog, version, tables, kind, target, current, target_v,
                 start, prev, ncalls>>
  /\ UNCHANGED others

\* (mutation: a failed set_version does not stop the traversal)
UpSetVersionSwallow ==
  /\ pc = "set_version" /\ kind = "up"
  /\ \E ok \in BOOLEAN :
       /\ log' = Append(log, Call("set_version", catalog[idx].version, ok))
       /\ version' = IF ok THEN catalog[idx].version ELSE version
       /\ Continue(UpScan(catalog, current, target_v, idx + 1))
  /\ UNCHANGED <<catalog, tables, kind, target, current, target_v, start,
                 prev, ncalls>>
  /\ UNCHANGED others

\* (mutation: the normalised version is written as the marker)
UpSetVersionNormalized ==
  /\ pc = "set_version" /\ kind = "up"
  /\ \E ok \in BOOLEAN :
       /\ log' = Append(log, Call("set_version",
                          normalize_version(catalog[idx].version), ok))
       /\ IF ok
          THEN /\ version' = normalize_version(catalog[idx].version)
               /\ Continue(UpScan(catalog, current, target_v, idx + 1))
          ELSE Return("err") /\ UNCHANGED version
  /\ UNCHANGED <<catalog, tables, kind, target, current, target_v, start,
                 prev, ncalls>>
  /\ UNCHANGED others

\* db.set_version(migration.version).await?  then on to the next record.
UpSetVersion ==
  /\ pc = "set_version" /\ kind = "up"
  /\ \E ok \in BOOLEAN :
       /\ log' = Append(log, Call("set_version", catalog[idx].version, ok))
       /\ IF ok
          THEN /\ version' = catalog[idx].version
               /\ Continue(UpScan(catalog, current, target_v, idx + 1))
          ELSE Return("err") /\ UNCHANGED version
  /\ UNCHANGED <<catalog, tables, kind, target, current, target_v, start,
                 prev, ncalls>>
  /\ UNCHANGED others

\* ---------------------------------------------------------- migrate_down
migrate_down(t) == Invoke("down", t)

DownGetVersion ==
  /\ pc = "get_version" /\ kind = "down"
  /\ \E ok \in BOOLEAN :
       /\ log' = Append(log, Call("get_version", <<>>, ok))
       /\ IF ~ok
          THEN Return("err") /\ UNCHANGED <<current, target_v>>
          ELSE LET p == Version_parse(normalize_version(version))
                   cur == IF p = None THEN ZERO ELSE p[1]
                   tv == IF target = None THEN default_down_target(catalog, cur)
                         ELSE Version_parse(normalize_version(target[1]))
               IN IF tv = None
                  THEN Return("err") /\ UNCHANGED <<current, target_v>>
                  ELSE /\ current' = cur
                       /\ target_v' = tv
                       /\ Continue(DownScan(catalog, cur, tv[1], Len(catalog)))
  /\ UNCHANGED <<catalog, version, tables, kind, target, start, prev, ncalls>>
  /\ UNCHANGED others

\* (mutation: the error of execute is swallowed and the marker is written)
DownExecuteSwallow ==
  /\ pc = "execute" /\ kind = "down"
  /\ \E ok \in BOOLEAN :
       /\ log' = Append(log, Call("execute", catalog[idx].down, ok))
       /\ tables' = IF ok THEN Apply(catalog[idx].down, tables) ELSE tables
       /\ pc' = "set_version"
       /\ UNCHANGED <<idx, result>>
  /\ UNCHANGED <<catalog, version, kind, target, current, target_v, start,
                 prev, ncalls>>
  /\ UNCHANGED others

\* if !migration.down.is_empty() { db.execute(migration.down).await? }
DownExecute ==
  /\ pc = "execute" /\ kind = "down"
  /\ \E ok \in BOOLEAN :
       /\ log' = Append(log, Call("execute", catalog[idx].down, ok))
       /\ IF ok
          THEN /\ tables' = Apply(catalog[idx].down, tables)
               /\ pc' = "set_version"
               /\ UNCHANGED <<idx, result>>
          ELSE Return("err") /\ UNCHANGED tables
  /\ UNCHANGED <<catalog, version, kind, target, current, target_v, start,
                 prev, ncalls>>
  /\ UNCHANGED others

\* (mutation: the requested target is written as the marker)
DownSetVersionTarget ==
  /\ pc = "set_version" /\ kind = "down"
  /\ LET pv == prev_v(catalog, NV(catalog[idx].version))
         w == IF target # None THEN target[1] ELSE pv[1] IN
     IF pv = None
     THEN Return("err") /\ UNCHANGED <<version, log>>
     ELSE \E ok \in BOOLEAN :
            /\ log' = Append(log, Call("set_version", w, ok))
            /\ IF ok
               THEN /\ version' = w
                    /\ Continue(DownScan(catalog, current, target_v[1], idx - 1))
               ELSE Return("err") /\ UNCHANGED version
  /\ UNCHANGED <<catalog, tables, kind, target, current, target_v, start,
                 prev, ncalls>>
  /\ UNCHANGED others

\* db.set_version(&prev_v).await?  then on to the next lower record.
DownSetVersion ==
  /\ pc = "set_version" /\ kind = "down"
  /\ LET pv == prev_v(catalog, NV(catalog[idx].version)) IN
     IF pv = None
     THEN Return("err") /\ UNCHANGED <<version, log>>
     ELSE \E ok \in BOOLEAN :
            /\ log' = Append(log, Call("set_version", pv[1], ok))
            /\ IF ok
               THEN /\ version' = pv[1]
                    /\ Continue(DownScan(catalog, current, target_v[1], idx - 1))
               ELSE Return("err") /\ UNCHANGED version
  /\ UNCHANGED <<catalog, tables, kind, target, current, target_v, start,
                 prev, ncalls>>
  /\ UNCHANGED others

\* ------------------------------------------------------------------ Spec
Next ==
  \/ \E t \in Targets : migrate_up(t)
  \/ UpGetVersion
  \/ UpExecute
  \/ UpSetVersion
  \/ \E t \in Targets : migrate_down(t)
  \/ DownGetVersion
  \/ DownExecute
  \/ DownSetVersion

Spec == Init /\ [][Next]_vars

\* ------------------------------------------------- the version utility
\* A component is an integer or, written -1, text that is not an integer.
Components == {-1} \cup (0..MaxComp)

FreeFormStrings == UNION {[1..n -> Components] : n \in 1..MaxParts}

InitNormalize ==
  /\ RunnerIdle(<<>>, ZERO)
  /\ nv_in \in FreeFormStrings /\ nv_out = <<>>
  /\ BackendIdle /\ AppIdle

\* normalize_version applied to v, then to what it returned.
Normalize ==
  /\ Len(nv_out) < MaxNormalize
  /\ nv_out' = Append(nv_out, normalize_version(
                  IF nv_out = <<>> THEN nv_in ELSE nv_out[Len(nv_out)]))
  /\ UNCHANGED <<runner, other, nv_in, backend, meta, bk_ret, slot, flag,
                 configured, cmd, cmd_ret, up_latest_ok, init, cache>>

NextNormalize == Normalize

SpecNormalize == InitNormalize /\ [][NextNormalize]_vars

\* ------------------------------------------- an upgrade, then a downgrade
\* A fresh store: no marker (read as "0.0.0"), no resources.
InitFresh == Init /\ version = ZERO

\* On a fresh store any call may be issued; a downgrade may follow an
\* upgrade that has returned.
CanCallSeq(k, t) ==
  \/ pc = "idle"
  \/ pc = "done" /\ ncalls < MaxCalls /\ kind = "up" /\ k = "down"

InvokeSeq(k, t) == CanCallSeq(k, t) /\ Begin(k, t) /\ UNCHANGED others

NextSeq ==
  \/ \E t \in Targets : InvokeSeq("up", t)
  \/ UpGetVersion
  \/ UpExecute
  \/ UpSetVersion
  \/ \E t \in Targets : InvokeSeq("down", t)
  \/ DownGetVersion
  \/ DownExecute
  \/ DownSetVersion

SpecSeq == InitFresh /\ [][NextSeq]_vars

\* ------------------------------------------- the SQLite and D1 backends
MaxRows == 1          \* rows of table _app_meta
MaxBackendCalls == 2  \* consecutive calls on one concrete backend

\* A column value: TEXT, INTEGER (val is its decimal text), or neither.
TextValue(s) == [type |-> "text", val |-> s]
IntegerValue(n) == [type |-> "int", val |-> <<n>>]
NullValue == [type |-> "null", val |-> <<>>]

Values ==
  {TextValue(s) : s \in StoredVersions} \cup {IntegerValue(n) : n \in 0..MaxComp} \cup {NullValue}

\* Table _app_meta: absent, or present with its rows.
MetaStates ==
  {[present |-> FALSE, rows |-> <<>>]} \cup
  {[present |-> TRUE, rows |-> r] :
     r \in UNION {[1..n -> Values] : n \in 0..MaxRows}}

Ok(x) == Some(x)
Err == None

\* (mutation: fetch_one instead of fetch_optional, no row is an error)
SqliteDatabase_get_version_fetch_one(m, io) ==
  LET exists == IF io = "fail1" THEN FALSE ELSE m.present IN
  IF ~exists THEN Ok(ZERO)
  ELSE IF io = "fail2" THEN Err
  ELSE IF m.rows = <<>> THEN Err
  ELSE IF m.rows[1].type \in {"text", "int"} THEN Ok(m.rows[1].val)
  ELSE Ok(ZERO)

\* io: "ok", or the query that fails ("fail1" the existence query,
\* "fail2" the row query).  A failed existence query reads as "absent".
SqliteDatabase_get_version(m, io) ==
  LET exists == IF io = "fail1" THEN FALSE ELSE m.present IN
  IF ~exists THEN Ok(ZERO)
  ELSE IF io = "fail2" THEN Err
  ELSE IF m.rows = <<>> THEN Ok(ZERO)
  ELSE IF m.rows[1].type \in {"text", "int"} THEN Ok(m.rows[1].val)
  ELSE Ok(ZERO)

D1Database_get_version(m, io) ==
  IF io = "fail1" THEN Err
  ELSE IF ~m.present THEN Ok(ZERO)
  ELSE IF io = "fail2" THEN Err
  ELSE IF m.rows = <<>> THEN Ok(ZERO)
  ELSE IF m.rows[1].type \in {"text", "int"} THEN Ok(m.rows[1].val)
  ELSE Ok(ZERO)

\* UPDATE _app_meta SET version = v: every row, an error without the table.
Update(m, v) == [m EXCEPT !.rows = [k \in DOMAIN m.rows |-> TextValue(v)]]

SqliteDatabase_set_version(m, v, io) ==
  IF io = "ok" /\ m.present THEN [ret |-> Ok(<<>>), meta |-> Update(m, v)]
  ELSE [ret |-> Err, meta |-> m]

D1Database_set_version(m, v, io) ==
  IF io = "ok" /\ m.present THEN [ret |-> Ok(<<>>), meta |-> Update(m, v)]
  ELSE [ret |-> Err, meta |-> m]

BackendCall(op, arg, io, ret) ==
  [op |-> op, arg |-> arg, io |-> io, ret |-> ret, before |-> meta]

InitBackend ==
  /\ RunnerIdle(<<>>, ZERO)
  /\ NormIdle /\ AppIdle
  /\ backend \in {"sqlite", "d1"}
  /\ meta \in MetaStates
  /\ bk_ret = <<>>

\* The row query is issued only when the existence query found the table.
get_version ==
  \E io \in {"ok", "fail1", "fail2"} :
    /\ Len(bk_ret) < MaxBackendCalls
    /\ io = "fail2" => meta.present
    /\ bk_ret' = Append(bk_ret, BackendCall("get_version", <<>>, io,
         IF backend = "sqlite" THEN SqliteDatabase_get_version(meta, io)
         ELSE D1Database_get_version(meta, io)))
    /\ UNCHANGED <<runner, other, nv_in, nv_out, backend, meta, slot, flag,
                   configured, cmd, cmd_ret, up_latest_ok, init, cache>>

set_version(v) ==
  \E io \in {"ok", "fail1"} :
    LET r == IF backend = "sqlite" THEN SqliteDatabase_set_version(meta, v, io)
             ELSE D1Database_set_version(meta, v, io) IN
    /\ Len(bk_ret) < MaxBackendCalls
    /\ bk_ret' = Append(bk_ret, BackendCall("set_version", v, io, r.ret))
    /\ meta' = r.meta
    /\ UNCHANGED <<runner, other, nv_in, nv_out, backend, slot, flag,
                   configured, cmd, cmd_ret, up_latest_ok, init, cache>>

NextBackend ==
  \/ get_version
  \/ \E v \in StoredVersions : set_version(v)

SpecBackend == InitBackend /\ [][NextBackend]_vars

\* No runner call issued on the store as it is.
FrameIdle ==
  /\ pc = "idle" /\ kind = "none" /\ target = None
  /\ current = ZERO /\ target_v = None /\ idx = 0
  /\ result = "none" /\ log = <<>> /\ start = version
  /\ prev = [result |-> "none", executes |-> 0] /\ ncalls = 0

\* The versions of c whose up step a store with marker v has applied.
Applied(c, v) ==
  LET p == Version_parse(normalize_version(v)) IN
  IF p = None THEN {}
  ELSE {c[k].version : k \in {j \in 1..Len(c) :
          LET q == Version_parse(normalize_version(c[j].version)) IN
          q # None /\ VLe(q[1], p[1])}}

\* ------------------------------------------- malformed version strings
\* "x" and "0.0.1.0": neither normalises to three integer components.
MalformedStrings == {<<-1>>, <<0, 0, 1, 0>>}

\* c with record r inserted before position k.
InsertAt(c, k, r) == SubSeq(c, 1, k - 1) \o <<r>> \o SubSeq(c, k, Len(c))

\* Ascending catalogs, and those with one malformed record somewhere.
CatalogsMalformed ==
  Catalogs \cup
  UNION {{InsertAt(c, k, Migration(m, TRUE)) :
            k \in 1..(Len(c) + 1), m \in MalformedStrings} :
         c \in {d \in Catalogs : Len(d) < MaxCatalog}}

TargetsMalformed == Targets \cup {Some(m) : m \in MalformedStrings}

\* A fresh store, an upgraded one, or one whose marker is not a version.
InitMalformed ==
  /\ catalog \in CatalogsMalformed
  /\ version \in {ZERO, <<1>>} \cup MalformedStrings
  /\ tables = Applied(catalog, version)
  /\ FrameIdle
  /\ OthersIdle

NextMalformed ==
  \/ \E t \in TargetsMalformed : migrate_up(t)
  \/ UpGetVersion
  \/ UpExecute
  \/ UpSetVersion
  \/ \E t \in TargetsMalformed : migrate_down(t)
  \/ DownGetVersion
  \/ DownExecute
  \/ DownSetVersion

SpecMalformed == InitMalformed /\ [][NextMalformed]_vars

\* ------------------------------------------------- catalogs out of order
\* Catalogs with out-of-order or duplicate versions.
CatalogsUnsorted ==
  UNION {{c \in [1..n -> Records] : ~Ascending(c)} : n \in 2..MaxCatalog}

\* A fresh or an upgraded store and a catalog that is not ascending.
InitUnsorted ==
  /\ catalog \in CatalogsUnsorted
  /\ version \in {ZERO, <<1>>}
  /\ tables = Applied(catalog, version)
  /\ FrameIdle
  /\ OthersIdle

SpecUnsorted == InitUnsorted /\ [][Next]_vars

\* ------------------------------------------------- the command layer
\* pub const MIGRATIONS: one record, version "0.1.0", with a down step.
MIGRATIONS == <<Migration(<<0, 1, 0>>, TRUE)>>

NotInitialized == "Database not initialized"

\* target_version: Option<String> of the administrative commands.
AppTargets == {None, Some(ZERO), Some(<<0, 1>>)}

\* group: Option<BookGroup> of get_books (a group is written as its i32).
Groups == {None, Some(<<1>>)}

RunnerCommands == {"execute_migration_up", "execute_migration_down"}

Commands ==
  {<<n, None>> : n \in {"get_current_db_version", "get_reading_progress",
                        "update_reading_progress"}}
  \cup {<<"get_books", g>> : g \in Groups}
  \cup {<<n, t>> : n \in RunnerCommands, t \in AppTargets}

\* Result<_, String> of a command.
RetOk(v) == [tag |-> "ok", msg |-> "", val |-> v]
RetErr(m) == [tag |-> "err", msg |-> m, val |-> <<>>]

\* What a command can observe or change.
Snapshot(v, t, s, f, c) ==
  [version |-> v, tables |-> t, slot |-> s, flag |-> f, cache |-> c]

\* A returned command: its result, whether it found the slot empty, the
\* backend calls it made, and the state before and after it.
Returned(n, a, r, calls, before, after) ==
  [name |-> n, arg |-> a, ret |-> r, empty |-> before.slot = None,
   calls |-> calls, before |-> before, after |-> after]

frame == <<pc, kind, target, current, target_v, idx, result, log, start,
           prev, ncalls>>

store == <<catalog, version, tables>>

\* The runner call has been consumed by its caller.
EndCall ==
  /\ pc' = "idle" /\ kind' = "none" /\ target' = None
  /\ current' = ZERO /\ target_v' = None /\ idx' = 0
  /\ result' = "none" /\ log' = <<>> /\ start' = version
  /\ prev' = [result |-> "none", executes |-> 0] /\ ncalls' = 0

\* A first start: no flag file, no backend attached, the store fresh or
\* already at the catalog's version.
InitApp ==
  /\ catalog = MIGRATIONS
  /\ version \in {ZERO, <<0, 1, 0>>}
  /\ tables = IF version = ZERO THEN {} ELSE {<<0, 1, 0>>}
  /\ pc = "idle" /\ kind = "none" /\ target = None
  /\ current = ZERO /\ target_v = None /\ idx = 0
  /\ result = "none" /\ log = <<>> /\ start = version
  /\ prev = [result |-> "none", executes |-> 0] /\ ncalls = 0
  /\ NormIdle /\ BackendIdle
  /\ slot = None /\ flag = FALSE /\ configured \in BOOLEAN
  /\ cmd = NoCmd /\ cmd_ret = None /\ up_latest_ok = FALSE
  /\ init = NoInit /\ cache = {}
  /\ other = NoTask

\* (mutation: the slot is used without being checked)
AttachedAlways(s) == TRUE

\* db_guard.as_ref() is Some
Attached(s) == s # None

\* A command is invoked.  get_books answers from the cache when it can.
command(n, a) ==
  /\ cmd.at = "none"
  /\ IF n = "get_books" /\ a \in cache
     THEN /\ cmd_ret' = Some(Returned(n, a, RetOk(<<>>), 0,
                 Snapshot(version, tables, slot, flag, cache),
                 Snapshot(version, tables, slot, flag, cache)))
          /\ UNCHANGED cmd
     ELSE /\ cmd' = [name |-> n, arg |-> a, at |-> "read", before |-> None]
          /\ UNCHANGED cmd_ret
  /\ UNCHANGED <<runner, other, nv_in, nv_out, backend, meta, bk_ret, slot, flag,
                 configured, up_latest_ok, init, cache>>

\* state.db.read().await, then the check of the slot.
db_read ==
  /\ cmd.at = "read"
  /\ init.at # "writing" /\ other.init.at # "writing"
  /\ LET now == Snapshot(version, tables, slot, flag, cache) IN
     IF ~Attached(slot)
     THEN /\ cmd_ret' = Some(Returned(cmd.name, cmd.arg,
                 RetErr(NotInitialized), 0, now, now))
          /\ cmd' = NoCmd
          /\ UNCHANGED runner
     ELSE IF cmd.name \in RunnerCommands
          THEN /\ pc = "idle"
               /\ Begin(IF cmd.name = "execute_migration_up" THEN "up"
                        ELSE "down", cmd.arg)
               /\ cmd' = [cmd EXCEPT !.at = "run", !.before = Some(now)]
               /\ UNCHANGED cmd_ret
          ELSE /\ cmd' = [cmd EXCEPT !.at = "held", !.before = Some(now)]
               /\ UNCHANGED <<cmd_ret, runner>>
  /\ UNCHANGED <<other, nv_in, nv_out, backend, meta, bk_ret, slot, flag,
                 configured, up_latest_ok, init, cache>>

\* db.get_version() / db.query(sql) / db.execute(sql) of a command, and
\* its return; get_books fills the cache after a successful read.
db_call ==
  /\ cmd.at = "held"
  /\ \E ok \in BOOLEAN :
       LET c == IF ok /\ cmd.name = "get_books" THEN cache \cup {cmd.arg}
                ELSE cache
           r == IF ~ok THEN RetErr("backend")
                ELSE IF cmd.name = "get_current_db_version" THEN RetOk(version)
                ELSE RetOk(<<>>)
       IN /\ cache' = c
          /\ cmd_ret' = Some(Returned(cmd.name, cmd.arg, r, 1, cmd.before[1],
                 Snapshot(version, tables, slot, flag, c)))
  /\ cmd' = NoCmd
  /\ UNCHANGED <<runner, other, nv_in, nv_out, backend, meta, bk_ret, slot, flag,
                 configured, up_latest_ok, init>>

\* migrate_up / migrate_down has returned to its command;
\* execute_migration_up then does: let _ = mark_as_initialized().
migration_returned ==
  /\ cmd.at = "run" /\ pc = "done"
  /\ \E marked \in BOOLEAN :
       LET okup == result = "ok" /\ cmd.name = "execute_migration_up"
           f == flag \/ (okup /\ marked)
       IN /\ flag' = f
          /\ up_latest_ok' = (up_latest_ok \/ (okup /\ cmd.arg = None))
          /\ cmd_ret' = Some(Returned(cmd.name, cmd.arg,
                 IF result = "ok" THEN RetOk(<<>>) ELSE RetErr("migration"),
                 Len(log), cmd.before[1],
                 Snapshot(version, tables, slot, f, cache)))
  /\ cmd' = NoCmd
  /\ EndCall
  /\ UNCHANGED <<store, other, nv_in, nv_out, backend, meta, bk_ret, slot,
                 configured, init, cache>>

\* init_database: Ok(false) at once when no database is configured.
initialize_database ==
  /\ init.at = "idle"
  /\ LET now == Some(Snapshot(version, tables, slot, flag, cache)) IN
     init' = IF configured
             THEN [NoInit EXCEPT !.at = "init_db", !.before = now]
             ELSE [NoInit EXCEPT !.ret = Some(<<"ok", "false">>),
                                 !.before = now]
  /\ UNCHANGED <<runner, other, nv_in, nv_out, backend, meta, bk_ret, slot, flag,
                 configured, cmd, cmd_ret, up_latest_ok, cache>>

\* (mutation: the migration is run whether or not the flag file exists)
init_db_always_migrate ==
  /\ init.at = "init_db"
  /\ \E ok \in BOOLEAN :
       IF ~ok
       THEN /\ init' = [init EXCEPT !.at = "idle",
                                     !.ret = Some(<<"err", "init_db">>)]
            /\ UNCHANGED runner
       ELSE /\ pc = "idle"
            /\ Begin("up", None)
            /\ init' = [init EXCEPT !.at = "migrate",
                                    !.flag0 = Some(flag), !.ups = 1]
  /\ UNCHANGED <<other, nv_in, nv_out, backend, meta, bk_ret, slot, flag,
                 configured, cmd, cmd_ret, up_latest_ok, cache>>

\* handler.init_db(db_config), then the test of the flag file.
init_db ==
  /\ init.at = "init_db"
  /\ \E ok \in BOOLEAN :
       IF ~ok
       THEN /\ init' = [init EXCEPT !.at = "idle",
                                     !.ret = Some(<<"err", "init_db">>)]
            /\ UNCHANGED runner
       ELSE IF ~flag
            THEN /\ pc = "idle"
                 /\ Begin("up", None)
                 /\ init' = [init EXCEPT !.at = "migrate",
                                         !.flag0 = Some(flag), !.ups = 1]
            ELSE /\ init' = [init EXCEPT !.at = "attach",
                                         !.flag0 = Some(flag)]
                 /\ UNCHANGED runner
  /\ UNCHANGED <<other, nv_in, nv_out, backend, meta, bk_ret, slot, flag,
                 configured, cmd, cmd_ret, up_latest_ok, cache>>

\* (mutation: the result of migrate_up is ignored)
init_migrated_ignore_error ==
  /\ init.at = "migrate" /\ pc = "done"
  /\ init' = [init EXCEPT !.at = "mark"]
  /\ up_latest_ok' = (up_latest_ok \/ result = "ok")
  /\ EndCall
  /\ UNCHANGED <<store, other, nv_in, nv_out, backend, meta, bk_ret, slot, flag,
                 configured, cmd, cmd_ret, cache>>

\* (mutation: the handle is stored before the migration result is tested)
init_migrated_attach_on_error ==
  /\ init.at = "migrate" /\ pc = "done"
  /\ slot' = Some("db")
  /\ IF result = "ok"
     THEN /\ init' = [init EXCEPT !.at = "mark"]
          /\ up_latest_ok' = TRUE
     ELSE /\ init' = [init EXCEPT !.at = "idle",
                                   !.ret = Some(<<"err", "migrate_up">>)]
          /\ UNCHANGED up_latest_ok
  /\ EndCall
  /\ UNCHANGED <<store, other, nv_in, nv_out, backend, meta, bk_ret, flag,
                 configured, cmd, cmd_ret, cache>>

\* handler.migrate_up(db.as_ref()).await.map_err(..)?
init_migrated ==
  /\ init.at = "migrate" /\ pc = "done"
  /\ IF result = "ok"
     THEN /\ init' = [init EXCEPT !.at = "mark"]
          /\ up_latest_ok' = TRUE
     ELSE /\ init' = [init EXCEPT !.at = "idle",
                                   !.ret = Some(<<"err", "migrate_up">>)]
          /\ UNCHANGED up_latest_ok
  /\ EndCall
  /\ UNCHANGED <<store, other, nv_in, nv_out, backend, meta, bk_ret, slot, flag,
                 configured, cmd, cmd_ret, cache>>

\* (mutation: migrated is not set after the migration)
mark_initialized_not_migrated ==
  /\ init.at = "mark"
  /\ \E ok \in BOOLEAN :
       IF ok
       THEN /\ flag' = TRUE
            /\ init' = [init EXCEPT !.at = "attach"]
       ELSE /\ init' = [init EXCEPT !.at = "idle",
                                     !.ret = Some(<<"err", "mark_initialized">>)]
            /\ UNCHANGED flag
  /\ UNCHANGED <<runner, other, nv_in, nv_out, backend, meta, bk_ret, slot,
                 configured, cmd, cmd_ret, up_latest_ok, cache>>

\* handler.mark_initialized()?
mark_initialized ==
  /\ init.at = "mark"
  /\ \E ok \in BOOLEAN :
       IF ok
       THEN /\ flag' = TRUE
            /\ init' = [init EXCEPT !.at = "attach", !.migrated = TRUE]
       ELSE /\ init' = [init EXCEPT !.at = "idle",
                                     !.ret = Some(<<"err", "mark_initialized">>)]
            /\ UNCHANGED flag
  /\ UNCHANGED <<runner, other, nv_in, nv_out, backend, meta, bk_ret, slot,
                 configured, cmd, cmd_ret, up_latest_ok, cache>>

\* db_state.db.write().await: granted once no read guard is held.
db_write ==
  /\ init.at = "attach"
  /\ cmd.at \notin {"held", "run"} /\ other.cmd.at \notin {"held", "run"}
  /\ other.init.at # "writing"
  /\ init' = [init EXCEPT !.at = "writing"]
  /\ UNCHANGED <<runner, other, nv_in, nv_out, backend, meta, bk_ret, slot, flag,
                 configured, cmd, cmd_ret, up_latest_ok, cache>>

\* *db_guard = Some(db); Ok(migrated)
attach ==
  /\ init.at = "writing"
  /\ slot' = Some("db")
  /\ init' = [init EXCEPT !.at = "idle", !.ret =
                Some(<<"ok", IF init.migrated THEN "true" ELSE "false">>)]
  /\ UNCHANGED <<runner, other, nv_in, nv_out, backend, meta, bk_ret, flag,
                 configured, cmd, cmd_ret, up_latest_ok, cache>>

\* app.restart(): the process state is lost, the store and the flag file
\* stay.
restart ==
  /\ slot' = None /\ cache' = {}
  /\ cmd' = NoCmd /\ cmd_ret' = None /\ init' = NoInit
  /\ EndCall
  /\ other' = NoTask
  /\ UNCHANGED <<store, nv_in, nv_out, backend, meta, bk_ret, flag,
                 configured, up_latest_ok>>

NextApp ==
  \/ \E c \in Commands : command(c[1], c[2])
  \/ db_read
  \/ db_call
  \/ migration_returned
  \/ initialize_database
  \/ init_db
  \/ init_migrated
  \/ mark_initialized
  \/ db_write
  \/ attach
  \/ restart
  \/ UpGetVersion
  \/ UpExecute
  \/ UpSetVersion
  \/ DownGetVersion
  \/ DownExecute
  \/ DownSetVersion

SpecApp == InitApp /\ [][NextApp]_vars

\* tokio's RwLock is fair: a queued reader is served, a writer releases.
SpecAppFair == SpecApp /\ SF_vars(db_read) /\ WF_vars(attach)

\* ------------------------------------------- any sequence of runner calls
\* On a fresh store any call may follow any call that has returned.
CanCallAny(k, t) ==
  \/ pc = "idle"
  \/ pc = "done" /\ ncalls < MaxCalls

InvokeAny(k, t) == CanCallAny(k, t) /\ Begin(k, t) /\ UNCHANGED others

\* The steps of the call in flight.
RunnerStep ==
  \/ UpGetVersion
  \/ UpExecute
  \/ UpSetVersion
  \/ DownGetVersion
  \/ DownExecute
  \/ DownSetVersion

NextAny ==
  \/ \E t \in Targets : InvokeAny("up", t)
  \/ \E t \in Targets : InvokeAny("down", t)
  \/ RunnerStep

SpecAny == InitFresh /\ [][NextAny]_vars

\* Every awaited backend call returns, so the call in flight goes on.
SpecSeqFair == SpecSeq /\ WF_vars(RunnerStep)

\* ------------------------------------------------- two concurrent tasks
MaxYields == 2  \* task switches in one run

\* Commands are async: at every await the runtime may run another task.
\* The task that runs swaps with the suspended one; the slot, the flag
\* file, the store and the cache are shared.
yield ==
  /\ other.yields < MaxYields
  /\ other' = [cmd |-> cmd, init |-> init, pc |-> pc, kind |-> kind,
               target |-> target, current |-> current, target_v |-> target_v,
               idx |-> idx, result |-> result, log |-> log, start |-> start,
               prev |-> prev, ncalls |-> ncalls,
               yields |-> other.yields + 1]
  /\ cmd' = other.cmd /\ init' = other.init
  /\ pc' = other.pc /\ kind' = other.kind /\ target' = other.target
  /\ current' = other.current /\ target_v' = other.target_v
  /\ idx' = other.idx /\ result' = other.result /\ log' = other.log
  /\ start' = other.start /\ prev' = other.prev /\ ncalls' = other.ncalls
  /\ UNCHANGED <<store, nv_in, nv_out, backend, meta, bk_ret, slot, flag,
                 configured, cmd_ret, up_latest_ok, cache>>

\* A first start with a database configured and a fresh store.
InitConc == InitApp /\ configured /\ version = ZERO

\* Each task initializes once; commands are issued until one returns.
NextConc ==
  \/ \E n \in RunnerCommands : cmd_ret = None /\ command(n, None)
  \/ db_read
  \/ migration_returned
  \/ init.ret = None /\ initialize_database
  \/ init_db
  \/ init_migrated
  \/ mark_initialized
  \/ db_write
  \/ attach
  \/ yield
  \/ RunnerStep

SpecConc == InitConc /\ [][NextConc]_vars

\* ------------------------------------------------- vocabulary of the claims
Done == pc = "done"

NoFailure == \A k \in 1..Len(log) : log[k].ok

Failed(k) == k \in 1..Len(log) /\ ~log[k].ok

\* The indices of S in ascending order, from i to n.
RECURSIVE AscFrom(_, _, _)
AscFrom(S, i, n) ==
  IF i > n THEN <<>>
  ELSE (IF i \in S THEN <<i>> ELSE <<>>) \o AscFrom(S, i + 1, n)

Reverse(s) == [k \in 1..Len(s) |-> s[Len(s) + 1 - k]]

IsPrefix(s, t) == Len(s) <= Len(t) /\ \A k \in 1..Len(s) : s[k] = t[k]

\* The marker as the successful set_version calls of l left it.
RECURSIVE MarkerAfter(_, _)
MarkerAfter(l, v0) ==
  IF l = <<>> THEN v0
  ELSE LET e == l[Len(l)] IN
       IF e.op = "set_version" /\ e.ok THEN e.arg
       ELSE MarkerAfter(SubSeq(l, 1, Len(l) - 1), v0)

Count(l, op) == Cardinality({k \in 1..Len(l) : l[k].op = op})

\* Records to upgrade: current < version <= target (all above current
\* when the target is unspecified), in ascending catalog order.
UpSelection(c, cur, t) ==
  AscFrom({i \in 1..Len(c) :
             /\ VGt(NV(c[i].version), cur)
             /\ (t = None \/ VLe(NV(c[i].version), NV(t[1])))}, 1, Len(c))

RECURSIVE UpStepsLog(_, _)
UpStepsLog(c, is) ==
  IF is = <<>> THEN <<>>
  ELSE <<Call("execute", c[Head(is)].up, TRUE),
         Call("set_version", c[Head(is)].version, TRUE)>>
       \o UpStepsLog(c, Tail(is))

UpLog(c, cur, t) ==
  <<Call("get_version", <<>>, TRUE)>> \o UpStepsLog(c, UpSelection(c, cur, t))

\* C1: on a backend that never fails, migrate_up executes the up step of
\* exactly the records with current < version <= target (all records above
\* current without a target), each once and in ascending order, and leaves
\* the marker at the greatest such version (unchanged when there is none).
C1_UpAppliesPending ==
  (Done /\ kind = "up" /\ NoFailure) =>
    LET sel == UpSelection(catalog, NV(start), target) IN
    /\ log = UpLog(catalog, NV(start), target)
    /\ version = IF sel = <<>> THEN start
                 ELSE catalog[sel[Len(sel)]].version

\* A targeted upgrade that applied a record, skipped an applied one and
\* stopped before one beyond the target.
C1_Witness ==
  /\ Done /\ kind = "up" /\ NoFailure /\ target # None
  /\ Count(log, "execute") >= 1
  /\ \E i \in 1..Len(catalog) : VLe(NV(catalog[i].version), NV(start))
  /\ \E i \in 1..Len(catalog) : VGt(NV(catalog[i].version), NV(target[1]))

\* C2: when execute or set_version fails during migrate_up, the call
\* returns the error at once, nothing is issued for a later record, and the
\* marker is the version of the last record whose step completed (the
\* initial version if none did).
C2_UpAbortsAtFailure ==
  \A k \in 1..Len(log) :
    (kind = "up" /\ Failed(k) /\ log[k].op \in {"execute", "set_version"}) =>
      LET full == UpLog(catalog, NV(start), target) IN
      /\ Done /\ result = "err"
      /\ k = Len(log)
      /\ IsPrefix(SubSeq(log, 1, k - 1), full)
      /\ k <= Len(full)
      /\ log[k] = [full[k] EXCEPT !.ok = FALSE]
      /\ version = MarkerAfter(SubSeq(log, 1, k - 1), start)

\* Three pending records, execute fails on the second: the marker is the
\* first record's version and the third record's resources are absent.
C2_Witness ==
  /\ Done /\ kind = "up" /\ result = "err"
  /\ Len(UpSelection(catalog, NV(start), target)) = 3
  /\ Len(log) = 4 /\ log[4].op = "execute" /\ ~log[4].ok
  /\ version = catalog[1].version
  /\ catalog[3].version \notin tables

\* C3: within one migrate_up call set_version of a record is issued only
\* after that record's execute succeeded, the next execute only after the
\* previous set_version succeeded, and each step starts with the marker
\* written by the previous step.
C3_UpSequential ==
  kind = "up" =>
    /\ \A k \in 1..Len(log) :
         /\ log[k].op = "get_version" => k = 1
         /\ log[k].op = "set_version" =>
              /\ k > 1 /\ log[k - 1].op = "execute" /\ log[k - 1].ok
              /\ log[k - 1].arg = <<"up", log[k].arg>>
         /\ log[k].op = "execute" =>
              /\ k > 1 /\ log[k - 1].ok
              /\ log[k - 1].op \in {"get_version", "set_version"}
    /\ pc = "execute" => version = MarkerAfter(log, start)

\* The second step of a call is about to execute on the marker the first
\* step wrote.
C3_Witness ==
  /\ kind = "up" /\ pc = "execute"
  /\ Count(log, "set_version") = 1
  /\ version = log[Len(log)].arg /\ version # start

\* C4: a call whose target is already reached (migrate_up with the marker
\* at or above the target, migrate_down with the marker at or below it)
\* issues no execute and no set_version, leaves the marker unchanged and
\* returns success.
C4_TargetReachedNoOp ==
  (/\ pc # "idle" /\ target # None
   /\ \/ kind = "up" /\ VLe(NV(target[1]), NV(start))
      \/ kind = "down" /\ VLe(NV(start), NV(target[1]))) =>
    /\ Count(log, "execute") = 0
    /\ Count(log, "set_version") = 0
    /\ version = start
    /\ (Done /\ NoFailure) => result = "ok"

\* A call returned whose target equals the current version, a catalog
\* version with records below and above it.
C4_Witness ==
  /\ Done /\ result = "ok" /\ target # None
  /\ NV(target[1]) = NV(start) /\ target[1] # start
  /\ Len(catalog) = 3 /\ catalog[2].version = start

\* C5: a second successful migrate_up with the same target and catalog
\* ends at the version the first call reached and executes no up step.
C5_RepeatedUpAppliesNothing ==
  (kind = "up" /\ ncalls >= 2 /\ prev.result = "ok") =>
    /\ Count(log, "execute") = 0
    /\ version = start
    /\ (Done /\ NoFailure) => result = "ok"

\* The second of two successful upgrades returned, the first having
\* applied two steps.
C5_Witness ==
  /\ Done /\ kind = "up" /\ result = "ok" /\ ncalls = 2
  /\ prev.result = "ok" /\ prev.executes = 2

\* The failure-free run of the upgrade loop from record i, as the calls
\* it issues.
RECURSIVE UpRunFrom(_, _, _, _)
UpRunFrom(c, cur, tv, i) ==
  LET s == UpScan(c, cur, tv, i) IN
  IF s[1] = "execute"
  THEN <<Call("execute", c[s[2]].up, TRUE),
         Call("set_version", c[s[2]].version, TRUE)>>
       \o UpRunFrom(c, cur, tv, s[2] + 1)
  ELSE <<>>

AboveCatalog(t) ==
  \A i \in 1..Len(catalog) : VLt(NV(catalog[i].version), NV(t))

\* C6: migrate_up with a target greater than every catalog version applies
\* the same steps in the same order and ends at the same version as
\* migrate_up with no target.
C6_HighTargetAsUnspecified ==
  (Done /\ kind = "up" /\ NoFailure /\ target # None /\ AboveCatalog(target[1])) =>
    LET run == UpRunFrom(catalog, NV(start), None, 1) IN
    /\ SubSeq(log, 2, Len(log)) = run
    /\ version = MarkerAfter(run, start)
    /\ result = "ok"

\* An upgrade to a target above the whole catalog applied two records.
C6_Witness ==
  /\ Done /\ kind = "up" /\ NoFailure /\ target # None
  /\ AboveCatalog(target[1])
  /\ Count(log, "set_version") = 2
  /\ version = catalog[Len(catalog)].version

\* The greatest catalog version strictly less than v, or 0.0.0.
GreatestBelow(c, v) ==
  LET S == {NV(c[i].version) : i \in {j \in 1..Len(c) : VLt(NV(c[j].version), v)}}
  IN IF S = {} THEN ZERO ELSE CHOOSE m \in S : \A x \in S : VLe(x, m)

\* The version string of the record preceding record i, or "0.0.0".
PrecedingString(c, i) ==
  LET S == {j \in 1..Len(c) : VLt(NV(c[j].version), NV(c[i].version))}
  IN IF S = {} THEN ZERO
     ELSE c[CHOOSE j \in S :
              \A x \in S : VLe(NV(c[x].version), NV(c[j].version))].version

DownTarget(c, cur, t) == IF t = None THEN GreatestBelow(c, cur) ELSE NV(t[1])

\* Records to unwind: target < version <= current, in descending order.
DownSelection(c, cur, t) ==
  Reverse(AscFrom({i \in 1..Len(c) :
                     /\ VLe(NV(c[i].version), cur)
                     /\ VGt(NV(c[i].version), DownTarget(c, cur, t))}, 1, Len(c)))

RECURSIVE DownStepsLog(_, _)
DownStepsLog(c, is) ==
  IF is = <<>> THEN <<>>
  ELSE (IF c[Head(is)].down = <<>> THEN <<>>
        ELSE <<Call("execute", c[Head(is)].down, TRUE)>>)
       \o <<Call("set_version", PrecedingString(c, Head(is)), TRUE)>>
       \o DownStepsLog(c, Tail(is))

DownLog(c, cur, t) ==
  <<Call("get_version", <<>>, TRUE)>> \o DownStepsLog(c, DownSelection(c, cur, t))

\* C7: migrate_down with no target resolves the target to the greatest
\* catalog version strictly less than the current version, or 0.0.0 when
\* there is none, so that from a store on a catalog version exactly one
\* down step is applied.
C7_DefaultDownTarget ==
  (kind = "down" /\ target = None /\ log # <<>> /\ log[1].ok) =>
    /\ target_v = Some(GreatestBelow(catalog, NV(start)))
    /\ \A i \in 1..Len(catalog) :
         (Done /\ NoFailure /\ NV(catalog[i].version) = NV(start)) =>
           /\ Count(log, "set_version") = 1
           /\ Count(log, "execute") = (IF catalog[i].down = <<>> THEN 0 ELSE 1)
           /\ \A k \in 1..Len(log) :
                log[k].op = "execute" => log[k].arg = catalog[i].down
           /\ version = PrecedingString(catalog, i)

\* A downgrade without target from the second catalog version returned on
\* the first one.
C7_Witness ==
  /\ Done /\ kind = "down" /\ target = None /\ NoFailure
  /\ Len(catalog) = 3 /\ start = catalog[2].version
  /\ version = catalog[1].version
  /\ Count(log, "execute") = 1

\* C8: on a backend that never fails migrate_down processes exactly the
\* records with target < version <= current in descending order, and after
\* each writes as the marker the greatest catalog version strictly less
\* than the record's version, or "0.0.0" for the first record.
C8_DownUnwindsSelected ==
  (Done /\ kind = "down" /\ NoFailure) =>
    LET sel == DownSelection(catalog, NV(start), target) IN
    /\ log = DownLog(catalog, NV(start), target)
    /\ version = IF sel = <<>> THEN start
                 ELSE PrecedingString(catalog, sel[Len(sel)])

\* A downgrade to an explicit catalog version unwound two records.
C8_Witness ==
  /\ Done /\ kind = "down" /\ NoFailure /\ target # None
  /\ Len(catalog) = 3 /\ Count(log, "set_version") = 2
  /\ NV(target[1]) = NV(catalog[1].version)
  /\ version = catalog[1].version

\* C9: a selected record whose down step is empty causes no execute call,
\* its marker write still happens (the version preceding the record), and
\* the traversal continues with the next lower record.
C9_EmptyDownStillMoves ==
  kind = "down" =>
    /\ \A k \in 1..Len(log) : log[k].op = "execute" => log[k].arg # <<>>
    /\ (log # <<>> /\ log[Len(log)].op = "set_version" /\ log[Len(log)].ok) =>
         version = log[Len(log)].arg
    /\ (Done /\ NoFailure) =>
         LET sel == DownSelection(catalog, NV(start), target)
             at(i) == CHOOSE k \in 1..Len(log) :
                        log[k] = Call("set_version", PrecedingString(catalog, i), TRUE)
         IN \A n \in 1..Len(sel) :
              catalog[sel[n]].down = <<>> =>
                /\ \E k \in 2..Len(log) :
                     /\ log[k] = Call("set_version", PrecedingString(catalog, sel[n]), TRUE)
                     /\ log[k - 1].op # "execute"
                /\ n < Len(sel) =>
                     \E k \in 2..Len(log) :
                       /\ k > at(sel[n])
                       /\ log[k] = Call("set_version",
                                        PrecedingString(catalog, sel[n + 1]), TRUE)

\* Three records unwound, the middle one without a down step.
C9_Witness ==
  /\ Done /\ kind = "down" /\ NoFailure
  /\ Len(catalog) = 3 /\ catalog[2].down = <<>>
  /\ catalog[1].down # <<>> /\ catalog[3].down # <<>>
  /\ Count(log, "execute") = 2 /\ Count(log, "set_version") = 3
  /\ version = ZERO

\* C10: when the execute of a down step or the following set_version
\* fails, the call returns the error at once, no lower record is processed
\* and the marker is the value written after the last completely unwound
\* record (the initial version if none was).
C10_DownAbortsAtFailure ==
  \A k \in 1..Len(log) :
    (kind = "down" /\ Failed(k) /\ log[k].op \in {"execute", "set_version"}) =>
      LET full == DownLog(catalog, NV(start), target) IN
      /\ Done /\ result = "err"
      /\ k = Len(log)
      /\ IsPrefix(SubSeq(log, 1, k - 1), full)
      /\ k <= Len(full)
      /\ log[k] = [full[k] EXCEPT !.ok = FALSE]
      /\ version = MarkerAfter(SubSeq(log, 1, k - 1), start)

\* The third record is unwound, then the marker write of the second fails.
C10_Witness ==
  /\ Done /\ kind = "down" /\ result = "err"
  /\ Len(catalog) = 3 /\ start = catalog[3].version
  /\ Len(log) = 5 /\ log[5].op = "set_version" /\ ~log[5].ok
  /\ version = catalog[2].version
  /\ catalog[2].version \notin tables

\* ------------------------------------------ claims on upgrade-then-downgrade
\* The downgrade in flight follows a successful upgrade of a fresh store.
AfterUpgrade == kind = "down" /\ ncalls = 2 /\ prev.result = "ok"

\* Records the upgrade applied: those at or below the marker it left.
AppliedSet == {i \in 1..Len(catalog) : VLe(NV(catalog[i].version), NV(start))}

GreatestAtMostString(c, v) ==
  LET S == {j \in 1..Len(c) : VLe(NV(c[j].version), v)}
  IN IF S = {} THEN ZERO
     ELSE c[CHOOSE j \in S :
              \A x \in S : VLe(NV(c[x].version), NV(c[j].version))].version

\* A successful downgrade from the version an upgrade reached to an
\* explicit lower target.
DowngradedBelow ==
  /\ Done /\ AfterUpgrade /\ result = "ok" /\ target # None
  /\ VLt(NV(target[1]), NV(start))

IntegerComponents(v) == \A k \in 1..Len(v) : v[k] \in Nat

\* C13: normalize_version right-pads missing components with zero: a
\* becomes a.0.0, a.b becomes a.b.0, and a.b.c is returned unchanged.
C13_NormalizePads ==
  nv_out # <<>> =>
    /\ Len(nv_in) = 1 => nv_out[1] = <<nv_in[1], 0, 0>>
    /\ Len(nv_in) = 2 => nv_out[1] = <<nv_in[1], nv_in[2], 0>>
    /\ Len(nv_in) = 3 => nv_out[1] = nv_in

\* "1.1" has been normalised to "1.1.0".
C13_Witness == nv_in = <<1, 1>> /\ nv_out # <<>> /\ nv_out[1] = <<1, 1, 0>>

\* C14: for every version string of 1 to 3 integer components,
\* normalising the normalised string changes nothing, and the normalised
\* string has exactly 3 components.
C14_NormalizeIdempotent ==
  (Len(nv_out) = 2 /\ Len(nv_in) \in 1..3 /\ IntegerComponents(nv_in)) =>
    /\ nv_out[2] = nv_out[1]
    /\ Len(nv_out[1]) = 3

\* "1" has been normalised twice.
C14_Witness ==
  /\ nv_in = <<1>> /\ Len(nv_out) = 2
  /\ nv_out[1] = <<1, 0, 0>> /\ nv_out[2] = <<1, 0, 0>>

\* ------------------------------------------------------------------- C15
NoMarker(m) == ~m.present \/ m.rows = <<>>

\* C15: on a store with no version marker (table _app_meta absent, or
\* present without a row) get_version, its queries answered, returns
\* Ok("0.0.0") on the SQLite and on the D1 backend.
C15_NoMarkerReadsZero ==
  \A k \in DOMAIN bk_ret :
    (/\ bk_ret[k].op = "get_version"
     /\ bk_ret[k].io = "ok"
     /\ NoMarker(bk_ret[k].before))
    => bk_ret[k].ret = Ok(ZERO)

\* get_version has returned on a SQLite store whose table holds no row.
C15_Witness ==
  /\ backend = "sqlite" /\ Len(bk_ret) >= 1
  /\ bk_ret[1].op = "get_version" /\ bk_ret[1].io = "ok"
  /\ bk_ret[1].before = [present |-> TRUE, rows |-> <<>>]
  /\ bk_ret[1].ret = Ok(ZERO)

\* ------------------------------------------------------------------- C16
\* C16: whenever set_version(v) returns success, an immediately following
\* get_version returns v, also on a store whose marker row does not exist.
C16_SetThenGet ==
  \A k \in 1..(Len(bk_ret) - 1) :
    (/\ bk_ret[k].op = "set_version" /\ bk_ret[k].ret # Err
     /\ bk_ret[k + 1].op = "get_version" /\ bk_ret[k + 1].io = "ok")
    => bk_ret[k + 1].ret = Ok(bk_ret[k].arg)

\* ------------------------------------------------------------------- C17
Malformed(s) == Version_parse(normalize_version(s)) = None

MalformedInput ==
  \/ Malformed(start)
  \/ target # None /\ Malformed(target[1])
  \/ \E k \in 1..Len(catalog) : Malformed(catalog[k].version)

\* C17: when the stored marker, the supplied target or a catalog record's
\* version does not normalise to three integer components, migrate_up and
\* migrate_down return an error and execute no migration step.
C17_MalformedIsFatal ==
  (Done /\ MalformedInput)
  => (result = "err" /\ Count(log, "execute") = 0)

\* ------------------------------------------------------------------- C18
\* C18: given a catalog that is not strictly ascending by normalised
\* version, migrate_up and migrate_down fail and execute no step.
C18_UnsortedRejected ==
  (Done /\ ~Ascending(catalog))
  => (result = "err" /\ Count(log, "execute") = 0
      /\ Count(log, "set_version") = 0)

\* ------------------------------------------------------------------- C19
\* No command holds the slot, or runs on the backend, that found it
\* empty; one that found it empty returned "Database not initialized",
\* made no backend call and left the state as it was.
EmptySlotRefused ==
  /\ cmd.at \in {"held", "run"} => cmd.before[1].slot # None
  /\ cmd_ret # None =>
       (cmd_ret[1].empty =>
          /\ cmd_ret[1].ret = RetErr(NotInitialized)
          /\ cmd_ret[1].calls = 0
          /\ cmd_ret[1].after = cmd_ret[1].before)

\* C19: every command that needs the backend, invoked while the slot is
\* empty, returns the error "Database not initialized", performs no backend
\* call, changes no state, and does not wait indefinitely for the slot.
C19_EmptySlotRefused ==
  /\ []EmptySlotRefused
  /\ (cmd.at = "read" /\ slot = None) ~> (cmd.at # "read")

\* execute_migration_up has been refused on an empty slot.
C19_Witness ==
  /\ cmd_ret # None
  /\ cmd_ret[1].name = "execute_migration_up"
  /\ cmd_ret[1].empty
  /\ cmd_ret[1].ret = RetErr(NotInitialized)
  /\ slot = None /\ ~flag

\* ------------------------------------------------------------------- C20
\* C20: the initialization flag is set only if some migrate_up to the
\* latest version has returned success before; after a failed migration
\* of initialize_database the flag is unset, so that the next call
\* migrates again.
C20_FlagOnlyAfterUpgrade ==
  /\ flag => up_latest_ok
  /\ init.ret = Some(<<"err", "migrate_up">>) => ~flag

\* The flag is set, and an execute_migration_up with a target has
\* returned Ok afterwards.
C20_Witness ==
  /\ flag /\ up_latest_ok
  /\ cmd_ret # None
  /\ cmd_ret[1].name = "execute_migration_up"
  /\ cmd_ret[1].arg = Some(ZERO)
  /\ cmd_ret[1].ret = RetOk(<<>>)

\* ------------------------------------------------------------------- C21
\* An initialize call has returned.
InitReturned == init.at = "idle" /\ init.ret # None

\* C21: an initialize that returns success on a configured database
\* returns true exactly when the flag was absent; it then has run one
\* migrate_up to latest and set the flag; with the flag present it has run
\* no migration, left the flag and returned false; the handle is attached.
C21_TrueIffFreshMigration ==
  (InitReturned /\ init.ret[1][1] = "ok" /\ init.flag0 # None) =>
    /\ init.ret[1][2] = "true" <=> init.flag0 = Some(FALSE)
    /\ init.flag0 = Some(FALSE) => (init.ups = 1 /\ up_latest_ok /\ flag)
    /\ init.flag0 = Some(TRUE) => (init.ups = 0 /\ flag)
    /\ slot # None

\* A first initialize has migrated and returned true.
C21_Witness ==
  /\ InitReturned /\ init.ret = Some(<<"ok", "true">>)
  /\ init.flag0 = Some(FALSE) /\ init.ups = 1
  /\ flag /\ slot # None /\ version = <<0, 1, 0>>

\* ------------------------------------------------------------------- C22
\* C22: initialize without a configured database returns an error, and
\* leaves the slot, the flag and the store unchanged.
C22_NotConfiguredFails ==
  (InitReturned /\ ~configured) =>
    /\ init.ret[1][1] = "err"
    /\ slot = init.before[1].slot /\ flag = init.before[1].flag
    /\ version = init.before[1].version /\ tables = init.before[1].tables

\* ------------------------------------------------------------------- C24
\* Backend handles alive: the one in the slot and the one an initialize
\* call has created and not yet stored or dropped.
LiveHandles ==
  (IF slot # None THEN 1 ELSE 0) +
  (IF init.at \in {"migrate", "mark", "attach", "writing"} THEN 1 ELSE 0)

\* C24: at most one live backend handle exists at any time, also while
\* initialize is re-run with a handle attached.
C24_OneLiveHandle == LiveHandles <= 1

\* ------------------------------------------------------------------- C26
\* C26: execute_migration_down never changes the flag; with the flag set
\* and the stored version below latest, initialize runs no migration and
\* returns false.
C26_FlagIndependentOfVersion ==
  /\ (cmd_ret # None /\ cmd_ret[1].name = "execute_migration_down") =>
       cmd_ret[1].after.flag = cmd_ret[1].before.flag
  /\ (InitReturned /\ init.flag0 = Some(TRUE)) =>
       (init.ups = 0 /\ init.ret = Some(<<"ok", "false">>))

\* The store was downgraded to 0.0.0 with the flag set, and initialize,
\* invoked on it, has returned false leaving it there.
C26_Witness ==
  /\ flag /\ version = ZERO /\ tables = {}
  /\ InitReturned /\ init.ret = Some(<<"ok", "false">>)
  /\ init.flag0 = Some(TRUE)
  /\ init.before[1].version = ZERO /\ init.before[1].flag

\* ------------------------------------------------------------------- C29
\* C29: when opening the backend or the first-run migrate_up fails inside
\* initialize, the slot keeps its previous content, the flag is not
\* created, and the error is returned.
C29_FailedInitLeavesState ==
  (InitReturned /\ init.ret[1][1] = "err"
     /\ init.ret[1][2] \in {"init_db", "migrate_up"}) =>
    /\ slot = init.before[1].slot
    /\ flag = init.before[1].flag

\* The first-run migration has failed: no handle, no flag.
C29_Witness ==
  /\ InitReturned /\ init.ret = Some(<<"err", "migrate_up">>)
  /\ slot = None /\ ~flag

\* ------------------------------------------------------------------- C25
\* C25: at the return of every migrate_up or migrate_down call, succeeded
\* or failed, the records whose up effects are present in the store are
\* exactly the records with version <= the stored marker.
C25_StoreReconcilable == Done => tables = Applied(catalog, version)

\* ------------------------------------------------------------------- C28
CatalogVersions == {catalog[k].version : k \in 1..Len(catalog)}

\* C28: from an empty store with an ascending catalog, after any sequence
\* of migrate_up and migrate_down calls, the stored marker is "0.0.0" or
\* the version of a catalog record.
C28_MarkerFromCatalog == version \in {ZERO} \cup CatalogVersions

\* After an upgrade, a downgrade to a target that is no catalog version
\* has moved the marker to a catalog version.
C28_Witness ==
  /\ Done /\ ncalls = 2 /\ kind = "down" /\ result = "ok"
  /\ target # None /\ target[1] \notin {ZERO} \cup CatalogVersions
  /\ Count(log, "set_version") >= 1
  /\ version \in CatalogVersions

\* ------------------------------------------------------------------- C30
ExecutesOf(l) == {k \in 1..Len(l) : l[k].op = "execute"}

C27_BackendsAgree ==
  \A k \in DOMAIN bk_ret :
    bk_ret[k].op = "get_version" =>
      /\ SqliteDatabase_get_version(bk_ret[k].before, bk_ret[k].io)
           = D1Database_get_version(bk_ret[k].before, bk_ret[k].io)
      /\ bk_ret[k].io # "ok" => bk_ret[k].ret = Err

\* ------------------------------------------------------------------- C23
\* Positions of a runner call between its get_version read and its last
\* set_version write.
InFlight == {"get_version", "execute", "set_version"}

\* C23: at most one migration run is in flight against the store at any
\* time, for every interleaving of initialize_database,
\* execute_migration_up and execute_migration_down.
C23_OneMigrationInFlight == ~(pc \in InFlight /\ other.pc \in InFlight)

TypeOK ==
  /\ pc \in {"idle", "get_version", "execute", "set_version", "done"}
  /\ result \in {"none", "ok", "err"}
  /\ version \in StoredVersions
  /\ ncalls \in 0..MaxCalls
====
